---- MODULE Spec2Model ----
(***************************************************************************)
(* The icon scripts of the n8n Chrome extension:                           *)
(*   create_simple_icons.py    create_minimal_png and its __main__ driver  *)
(*   scripts/check-store-icon.py   check_and_create_icon and its __main__  *)
(* A behaviour is one run of one script (prog), or a sequence of direct    *)
(* calls of create_minimal_png(filename, size) with arbitrary arguments.   *)
(* Bytes are the integers 0..255, a bytes object is a sequence of them.    *)
(***************************************************************************)
EXTENDS Integers, Sequences, FiniteSets, TLC

\* ------------------------------------------------------------- bounds
\* Largest size passed to create_minimal_png by a direct call.
MaxSize == 2
\* Number of direct calls of create_minimal_png in one behaviour.
MaxCalls == 3
\* Number of runs of check-store-icon.py in one behaviour.
MaxRuns == 2

\* ------------------------------------------------------ byte helpers
Byte == 0 .. 255

RECURSIVE BitXor(_, _)
\* a ^ b on non-negative integers.
BitXor(a, b) ==
    IF a = 0 THEN b
    ELSE IF b = 0 THEN a
    ELSE ((a + b) % 2) + 2 * BitXor(a \div 2, b \div 2)

\* struct.pack('>I', n): the four bytes of n, most significant first.
PackU32(n) ==
    << (n \div 16777216) % 256, (n \div 65536) % 256, (n \div 256) % 256, n % 256 >>

\* struct.pack raises struct.error for an 'I' argument below 0 (and above
\* 2^32 - 1, which no integer of the model reaches).
PackableU32(n) == n >= 0

\* a ^ b for bytes, tabulated.
XorTable == [a \in Byte |-> [b \in Byte |-> BitXor(a, b)]]

\* A 32-bit word is kept as its four bytes, most significant first.
XorWord(u, v) ==
    << XorTable[u[1]][v[1]], XorTable[u[2]][v[2]], XorTable[u[3]][v[3]],
       XorTable[u[4]][v[4]] >>

\* u >> 1
ShiftRight1(u) ==
    << u[1] \div 2,
       (u[2] \div 2) + 128 * (u[1] % 2),
       (u[3] \div 2) + 128 * (u[2] % 2),
       (u[4] \div 2) + 128 * (u[3] % 2) >>

\* u >> 8
ShiftRight8(u) == << 0, u[1], u[2], u[3] >>

\* s * n for a bytes object (or list) s: empty for n <= 0.
Repeat(s, n) ==
    IF n <= 0 \/ Len(s) = 0 THEN << >>
    ELSE << >> \o [i \in 1 .. n * Len(s) |-> s[((i - 1) % Len(s)) + 1]]

Slice(s, i, j) == IF j < i THEN << >> ELSE SubSeq(s, i, j)

\* ------------------------------------------------------------ zlib.crc32
\* The reflected CRC-32 polynomial 0xEDB88320.
CrcPoly == << 237, 184, 131, 32 >>

\* Below, CHOOSE out \in {F(r) : r \in {e}} : TRUE is F(e), with e evaluated
\* once and before F.
RECURSIVE CrcShift(_, _)
\* k rounds of the CRC-32 division step.
CrcShift(c, k) ==
    IF k = 0 THEN c
    ELSE CHOOSE out \in
             {CrcShift(d, k - 1) :
              d \in {IF c[4] % 2 = 1 THEN XorWord(ShiftRight1(c), CrcPoly)
                     ELSE ShiftRight1(c)}} : TRUE

CrcTable == [n \in Byte |-> CrcShift(<< 0, 0, 0, n >>, 8)]

\* One byte of the table-driven CRC update.
CrcStep(c, byte) == XorWord(CrcTable[XorTable[c[4]][byte]], ShiftRight8(c))

RECURSIVE CrcUpdate(_, _, _, _)
\* The CRC register after bytes b[lo..hi], from register c (the range is
\* halved so that the evaluation depth stays logarithmic).
CrcUpdate(c, b, lo, hi) ==
    IF lo > hi THEN c
    ELSE IF lo = hi THEN CrcStep(c, b[lo])
    ELSE LET mid == (lo + hi) \div 2
         IN  CHOOSE out \in {CrcUpdate(r, b, mid + 1, hi) :
                              r \in {CrcUpdate(c, b, lo, mid)}} : TRUE

\* struct.pack('>I', zlib.crc32(b) & 0xffffffff)
Crc32(b) ==
    XorWord(CrcUpdate(<< 255, 255, 255, 255 >>, b, 1, Len(b)), << 255, 255, 255, 255 >>)

\* --------------------------------------------------------- zlib.compress
RECURSIVE AdlerUpdate(_, _, _, _)
\* The Adler-32 sums << a, s >> after bytes b[lo..hi], from the sums as.
AdlerUpdate(as, b, lo, hi) ==
    IF lo > hi THEN as
    ELSE IF lo = hi
         THEN << (as[1] + b[lo]) % 65521, (as[2] + ((as[1] + b[lo]) % 65521)) % 65521 >>
    ELSE LET mid == (lo + hi) \div 2
         IN  CHOOSE out \in {AdlerUpdate(r, b, mid + 1, hi) :
                              r \in {AdlerUpdate(as, b, lo, mid)}} : TRUE

\* struct.pack('>I', zlib.adler32(b)): the sum s in the high half.
Adler32(b) ==
    LET as == AdlerUpdate(<< 1, 0 >>, b, 1, Len(b))
    IN  << as[2] \div 256, as[2] % 256, as[1] \div 256, as[1] % 256 >>

RECURSIVE StoredBlocks(_)
\* A DEFLATE stream of stored blocks (at most 65535 bytes each), the last
\* one flagged final.
StoredBlocks(raw) ==
    LET n == IF Len(raw) > 65535 THEN 65535 ELSE Len(raw)
        final == IF n = Len(raw) THEN 1 ELSE 0
        nlen == 65535 - n
        head == << final, n % 256, n \div 256, nlen % 256, nlen \div 256 >>
    IN  head \o Slice(raw, 1, n)
             \o (IF final = 1 THEN << >> ELSE StoredBlocks(Slice(raw, n + 1, Len(raw))))

\* zlib.compress(raw): a zlib stream, i.e. the two header bytes 0x78 0x9C,
\* a DEFLATE stream and the big-endian Adler-32 of raw.  zlib is a library;
\* of the DEFLATE encodings it may choose, the model takes stored blocks.
Compress(raw) == << 120, 156 >> \o StoredBlocks(raw) \o Adler32(raw)

\* --------------------------------------------------- create_minimal_png
\* r, g, b = 74, 158, 255
Color == << 74, 158, 255 >>

\* b'\x89PNG\r\n\x1a\n'
png_signature == << 137, 80, 78, 71, 13, 10, 26, 10 >>

TagIHDR == << 73, 72, 68, 82 >>
TagIDAT == << 73, 68, 65, 84 >>
TagIEND == << 73, 69, 78, 68 >>

\* As ihdr_data, packed with '<II': the two sizes little-endian.
ihdr_data_le(size) ==
    << size % 256, (size \div 256) % 256, (size \div 65536) % 256, (size \div 16777216) % 256,
       size % 256, (size \div 256) % 256, (size \div 65536) % 256, (size \div 16777216) % 256,
       8, 2, 0, 0, 0 >>

\* struct.pack('>IIBBBBB', size, size, 8, 2, 0, 0, 0)
ihdr_data(size) == PackU32(size) \o PackU32(size) \o << 8, 2, 0, 0, 0 >>

ihdr_chunk(size) ==
    PackU32(Len(ihdr_data(size))) \o TagIHDR \o ihdr_data(size)
        \o Crc32(TagIHDR \o ihdr_data(size))

\* As row, with the channels in the order b, g, r.
row_bgr(size) == << 0 >> \o Repeat(<< Color[3], Color[2], Color[1] >>, size)

\* row = b'\x00' + bytes([r, g, b] * size)
row(size) == << 0 >> \o Repeat(Color, size)

\* As idat_data_raw, the rows without their filter byte.
idat_data_raw_unfiltered(size) == Repeat(Repeat(Color, size), size)

\* idat_data_raw = row * size
idat_data_raw(size) == Repeat(row(size), size)

\* As idat_chunk, the CRC taken over the payload without the tag.
idat_chunk_crc_of_payload(idat_data) ==
    PackU32(Len(idat_data)) \o TagIDAT \o idat_data \o Crc32(idat_data)

idat_chunk(idat_data) ==
    PackU32(Len(idat_data)) \o TagIDAT \o idat_data
        \o Crc32(TagIDAT \o idat_data)

iend_chunk == PackU32(0) \o TagIEND \o Crc32(TagIEND)

\* As Pieces, the IDAT chunk written before the IHDR chunk.
Pieces_idat_first(l) == << png_signature, l.idat_chunk, l.ihdr_chunk, iend_chunk >>

\* The arguments of the four f.write calls, in order.
Pieces(l) == << png_signature, l.ihdr_chunk, l.idat_chunk, iend_chunk >>

\* ------------------------------------------------------------ files
\* A file of the icons directory: whether it exists, and its bytes.
NoFile == [exists |-> FALSE, data |-> << >>]
FileOf(bytes) == [exists |-> TRUE, data |-> bytes]

\* Content a destination may hold before a script runs (not a PNG).
OldFile == FileOf(<< 71, 73, 70, 56, 57, 97, 1, 0, 1, 0 >>)

IconNames == << "icon16.png", "icon48.png", "icon128.png" >>
IconFiles == {IconNames[k] : k \in 1 .. 3}

\* create_minimal_png('icon16.png', 16), ('icon48.png', 48), ('icon128.png', 128)
IconSizes == << 16, 48, 128 >>

\* The arguments of a direct call of create_minimal_png.
CallFiles == {"icon16.png"}
CallSizes == {0 - 1} \cup (0 .. MaxSize)

\* The locals of create_minimal_png before they are assigned.
NoLocals == [ihdr_chunk |-> << >>, idat_data_raw |-> << >>, idat_data |-> << >>,
             idat_chunk |-> << >>]

VARIABLES
    prog,       \* "direct", "main" (create_simple_icons.py) or "store" (check-store-icon.py)
    iconsDir,   \* whether the icons directory exists
    fs,         \* the icon files: name -> file
    pc,         \* create_minimal_png: "idle", "build", "open", "write", "returned", "raised"
    filename,   \* its arguments
    size,
    loc,        \* its locals
    written,    \* the number of f.write calls done on the open file
    before,     \* the destination as it was when the call started
    calls,      \* the number of direct calls so far
    produced,   \* << size, bytes written >> of every call that returned, in order
    mpc,        \* __main__ of create_simple_icons.py
    attempts,   \* the calls it made, in order
    spc,        \* check_and_create_icon: "idle", "check", "create", "mkdir", "save",
                \* "returned", "raised"
    storeFile,  \* icons/store-icon-128.png
    pil,        \* whether Pillow can be imported
    sbefore,    \* the store icon as it was when the run started
    swrote,     \* whether this run has saved the store icon
    runs        \* the number of runs of check-store-icon.py so far

vars == << prog, iconsDir, fs, pc, filename, size, loc, written, before, calls,
           produced, mpc, attempts, spc, storeFile, pil, sbefore, swrote, runs >>

encVars == << pc, filename, size, loc, written, before >>

storeVars == << spc, storeFile, pil, sbefore, swrote, runs >>

\* ------------------------------------------------- the store icon file
\* What Image.open makes of the file: no file, no image, or an image of
\* w x h pixels; art tells the drawing of create_store_icon from any other.
NoStore == [kind |-> "absent", w |-> 0, h |-> 0, art |-> "none"]
Garbage == [kind |-> "garbage", w |-> 0, h |-> 0, art |-> "none"]
ImageFile(w, h, art) == [kind |-> "image", w |-> w, h |-> h, art |-> art]

\* size = 128 in create_store_icon, and the (128, 128) of the check.
StoreSize == 128

\* A smaller side a store icon found on disk may have.
OtherSize == StoreSize \div 2

\* img = create_store_icon(), as img.save writes it.
StoreIcon == ImageFile(StoreSize, StoreSize, "store-icon")

StoreFiles ==
    {NoStore, Garbage, StoreIcon}
        \cup {ImageFile(w, h, "other") : w \in {StoreSize, OtherSize}, h \in {StoreSize, OtherSize}}

Init ==
    /\ prog \in {"direct", "main", "store"}
    /\ iconsDir \in BOOLEAN
    /\ fs \in [IconFiles -> {NoFile, OldFile}]
    /\ iconsDir = FALSE => \A f \in IconFiles : fs[f] = NoFile
    /\ prog = "direct" => \A f \in IconFiles \ CallFiles : fs[f] = NoFile
    /\ pc = "idle"
    /\ filename = "icon16.png"
    /\ size = 0
    /\ loc = NoLocals
    /\ written = 0
    /\ before = NoFile
    /\ calls = 0
    /\ produced = << >>
    /\ mpc = "start"
    /\ attempts = << >>
    /\ spc = "idle"
    /\ storeFile \in StoreFiles
    /\ pil \in BOOLEAN
    /\ storeFile # NoStore => iconsDir
    /\ prog # "store" => storeFile = NoStore /\ pil
    /\ prog = "store" => \A f \in IconFiles : fs[f] = NoFile
    /\ sbefore = storeFile
    /\ swrote = FALSE
    /\ runs = 0

\* The entry of create_minimal_png(f, s).
Enter(f, s) ==
    /\ pc' = "build"
    /\ filename' = f
    /\ size' = s
    /\ loc' = NoLocals
    /\ written' = 0
    /\ before' = fs[f]

\* A direct call create_minimal_png(f, s), once the previous one has ended.
Call(f, s) ==
    /\ prog = "direct"
    /\ pc \in {"idle", "returned", "raised"}
    /\ calls < MaxCalls
    /\ Enter(f, s)
    /\ calls' = calls + 1
    /\ UNCHANGED << prog, iconsDir, fs, produced, mpc, attempts, storeVars >>

\* Lines 18-35: the signature and the three chunks are built in memory.
Build ==
    /\ pc = "build"
    /\ PackableU32(size)
    /\ \E raw \in {idat_data_raw(size)} :
           \E z \in {Compress(raw)} :
               loc' = [ihdr_chunk |-> ihdr_chunk(size),
                       idat_data_raw |-> raw,
                       idat_data |-> z,
                       idat_chunk |-> idat_chunk(z)]
    /\ pc' = "open"
    /\ UNCHANGED << prog, iconsDir, fs, filename, size, written, before, calls,
                    produced, mpc, attempts, storeVars >>

\* Line 21: struct.pack raises struct.error.
PackError ==
    /\ pc = "build"
    /\ ~PackableU32(size)
    /\ pc' = "raised"
    /\ UNCHANGED << prog, iconsDir, fs, filename, size, loc, written, before, calls,
                    produced, mpc, attempts, storeVars >>

\* Line 29: zlib.compress raises (zlib.error, MemoryError).
CompressError ==
    /\ pc = "build"
    /\ PackableU32(size)
    /\ pc' = "raised"
    /\ UNCHANGED << prog, iconsDir, fs, filename, size, loc, written, before, calls,
                    produced, mpc, attempts, storeVars >>

\* As OpenFile, with mode 'ab': what the file holds is kept.
OpenFile_append(file) == FileOf(file.data)

\* Line 38: open(..., 'wb') creates the file or truncates it.
OpenFile(file) == FileOf(<< >>)

OpenOk ==
    /\ pc = "open"
    /\ iconsDir
    /\ fs' = [fs EXCEPT ![filename] = OpenFile(fs[filename])]
    /\ pc' = "write"
    /\ UNCHANGED << prog, iconsDir, filename, size, loc, written, before, calls,
                    produced, mpc, attempts, storeVars >>

\* Line 38: open raises OSError (no icons directory, no permission).
OpenError ==
    /\ pc = "open"
    /\ pc' = "raised"
    /\ UNCHANGED << prog, iconsDir, fs, filename, size, loc, written, before, calls,
                    produced, mpc, attempts, storeVars >>

\* Lines 39-44: the next f.write; after the fourth the file is closed, the
\* line is printed and the call returns.
WriteOk ==
    /\ pc = "write"
    /\ written < 4
    /\ fs' = [fs EXCEPT ![filename] = FileOf(@.data \o Pieces(loc)[written + 1])]
    /\ written' = written + 1
    /\ pc' = IF written' = 4 THEN "returned" ELSE "write"
    /\ produced' = IF written' = 4
                   THEN Append(produced, << size, fs'[filename].data >>)
                   ELSE produced
    /\ UNCHANGED << prog, iconsDir, filename, size, loc, before, calls, mpc, attempts,
                    storeVars >>

\* Lines 39-42: f.write raises OSError; the with statement closes the file,
\* which keeps what the earlier writes put in it.
WriteError ==
    /\ pc = "write"
    /\ written < 4
    /\ pc' = "raised"
    /\ UNCHANGED << prog, iconsDir, fs, filename, size, loc, written, before, calls,
                    produced, mpc, attempts, storeVars >>

\* ------------------------------------- create_simple_icons.py __main__
\* Line 50: os.makedirs('icons', exist_ok=True).
MainMakedirs ==
    /\ prog = "main"
    /\ mpc = "start"
    /\ iconsDir' = TRUE
    /\ mpc' = "try"
    /\ UNCHANGED << prog, fs, encVars, calls, produced, attempts, storeVars >>

\* Line 50: os.makedirs raises OSError, outside the try: the script dies.
MainMakedirsError ==
    /\ prog = "main"
    /\ mpc = "start"
    /\ mpc' = "crashed"
    /\ UNCHANGED << prog, iconsDir, fs, encVars, calls, produced, attempts, storeVars >>

\* The index in IconNames of the call the try block makes next, given the
\* calls made so far.
NextIcon(made) == Len(made) + 1

\* As Proceeds, with each call in a try block of its own.
Proceeds_always(p) == TRUE

\* Whether the try block goes on to its next statement after a call ended
\* with outcome p.
Proceeds(p) == p = "returned"

\* Lines 54-56: the next create_minimal_png call of the try block.
MainCall ==
    /\ prog = "main"
    /\ mpc = "try"
    /\ pc = "idle" \/ Proceeds(pc)
    /\ Len(attempts) < 3
    /\ Enter(IconNames[NextIcon(attempts)], IconSizes[NextIcon(attempts)])
    /\ attempts' = Append(attempts, IconNames[NextIcon(attempts)])
    /\ UNCHANGED << prog, iconsDir, fs, calls, produced, mpc, storeVars >>

\* Lines 58-63: the three calls returned; the success message is printed.
MainSuccess ==
    /\ prog = "main"
    /\ mpc = "try"
    /\ Proceeds(pc)
    /\ Len(attempts) = 3
    /\ mpc' = "success"
    /\ UNCHANGED << prog, iconsDir, fs, encVars, calls, produced, attempts, storeVars >>

\* Lines 65-68: a call raised; except Exception prints the error.
MainExcept ==
    /\ prog = "main"
    /\ mpc = "try"
    /\ pc = "raised"
    /\ mpc' = "error"
    /\ UNCHANGED << prog, iconsDir, fs, encVars, calls, produced, attempts, storeVars >>

\* ------------------------------------------------ check-store-icon.py
iconVars == << fs, encVars, calls, produced, mpc, attempts >>

\* A run of the script starts: check_and_create_icon is called (line 128).
StoreStart ==
    /\ prog = "store"
    /\ spc \in {"idle", "returned", "raised"}
    /\ runs < MaxRuns
    /\ spc' = "check"
    /\ sbefore' = storeFile
    /\ swrote' = FALSE
    /\ runs' = runs + 1
    /\ UNCHANGED << prog, iconsDir, iconVars, storeFile, pil >>

\* Lines 90-93: the try block gets to img.size, i.e. neither the import of
\* PIL nor Image.open raises.
Opens(file) == pil /\ file.kind = "image"

\* Line 93: img.size == (128, 128)
RightSize(file) == file.w = StoreSize /\ file.h = StoreSize

\* Lines 88-96: the icon exists with the right size; return True.
StoreFound ==
    /\ spc = "check"
    /\ storeFile.kind # "absent"
    /\ Opens(storeFile)
    /\ RightSize(storeFile)
    /\ spc' = "returned"
    /\ UNCHANGED << prog, iconsDir, iconVars, storeFile, pil, sbefore, swrote, runs >>

\* Lines 88-105: no icon, an exception in the try block, or the wrong size.
StoreMissing ==
    /\ spc = "check"
    /\ \/ storeFile.kind = "absent"
       \/ ~Opens(storeFile)
       \/ ~RightSize(storeFile)
    /\ spc' = "create"
    /\ UNCHANGED << prog, iconsDir, iconVars, storeFile, pil, sbefore, swrote, runs >>

\* Lines 10-77 and 108: create_store_icon; with PIL missing, pip installs it
\* (lines 14-17).
StoreCreate ==
    /\ spc = "create"
    /\ pil' = TRUE
    /\ spc' = "mkdir"
    /\ UNCHANGED << prog, iconsDir, iconVars, storeFile, sbefore, swrote, runs >>

\* Line 17: pip could not install Pillow, the second import raises.
StoreImportError ==
    /\ spc = "create"
    /\ ~pil
    /\ spc' = "raised"
    /\ UNCHANGED << prog, iconsDir, iconVars, storeFile, pil, sbefore, swrote, runs >>

\* Line 111: icon_path.parent.mkdir(parents=True, exist_ok=True)
StoreMkdir ==
    /\ spc = "mkdir"
    /\ iconsDir' = TRUE
    /\ spc' = "save"
    /\ UNCHANGED << prog, iconVars, storeFile, pil, sbefore, swrote, runs >>

StoreMkdirError ==
    /\ spc = "mkdir"
    /\ spc' = "raised"
    /\ UNCHANGED << prog, iconsDir, iconVars, storeFile, pil, sbefore, swrote, runs >>

\* Lines 114-119: img.save(icon_path), the report, return True.
StoreSave ==
    /\ spc = "save"
    /\ storeFile' = StoreIcon
    /\ swrote' = TRUE
    /\ spc' = "returned"
    /\ UNCHANGED << prog, iconsDir, iconVars, pil, sbefore, runs >>

\* Line 114: img.save raises: the file could not be opened (and is as it
\* was) or was opened and is left without a whole image in it.
StoreSaveError ==
    /\ spc = "save"
    /\ \/ UNCHANGED << storeFile, swrote >>
       \/ storeFile' = Garbage /\ swrote' = TRUE
    /\ spc' = "raised"
    /\ UNCHANGED << prog, iconsDir, iconVars, pil, sbefore, runs >>

Next ==
    \/ \E f \in CallFiles, s \in CallSizes : Call(f, s)
    \/ Build
    \/ PackError
    \/ CompressError
    \/ OpenOk
    \/ OpenError
    \/ WriteOk
    \/ WriteError
    \/ MainMakedirs
    \/ MainMakedirsError
    \/ MainCall
    \/ MainSuccess
    \/ MainExcept
    \/ StoreStart
    \/ StoreFound
    \/ StoreMissing
    \/ StoreCreate
    \/ StoreImportError
    \/ StoreMkdir
    \/ StoreMkdirError
    \/ StoreSave
    \/ StoreSaveError

Spec == Init /\ [][Next]_vars

\* ========================================================== a PNG reader
\* What a reader of the file makes of it: the chunks, the inflated IDAT
\* stream, the pixels.  It reads 8-bit truecolor images whose rows have
\* filter type 0 and whose DEFLATE blocks are stored blocks.

\* The number whose big-endian bytes are b[i..i+3] (for b[i] < 128).
UnpackU32(b, i) ==
    b[i] * 16777216 + b[i + 1] * 65536 + b[i + 2] * 256 + b[i + 3]

HasSignature(f) == Len(f) >= 8 /\ SubSeq(f, 1, 8) = png_signature

BadChunk(f, pos) ==
    [tag |-> << >>, data |-> Slice(f, pos, Len(f)), crc |-> << >>, wellFormed |-> FALSE]

RECURSIVE ChunksFrom(_, _)
\* The chunks of f from position pos on, each cut out by its own length
\* field; bytes that do not make a whole chunk end the list as a chunk that
\* is not well formed.
ChunksFrom(f, pos) ==
    IF pos > Len(f) THEN << >>
    ELSE IF pos + 11 > Len(f) \/ f[pos] >= 128 THEN << BadChunk(f, pos) >>
    ELSE IF pos + 11 + UnpackU32(f, pos) > Len(f) THEN << BadChunk(f, pos) >>
    ELSE CHOOSE out \in
             {<< [tag |-> SubSeq(f, pos + 4, pos + 7),
                  data |-> Slice(f, pos + 8, pos + 7 + n),
                  crc |-> SubSeq(f, pos + 8 + n, pos + 11 + n),
                  wellFormed |-> TRUE] >> \o ChunksFrom(f, pos + 12 + n) :
              n \in {UnpackU32(f, pos)}} : TRUE

\* The chunks after the signature.
PngChunks(f) == ChunksFrom(f, 9)

Tags(chs) == [k \in 1 .. Len(chs) |-> chs[k].tag]

\* The chunk's CRC field is the CRC-32 of its tag and payload.
CrcOk(ch) == ch.wellFormed /\ ch.crc = Crc32(ch.tag \o ch.data)

InflateFail == [ok |-> FALSE, data |-> << >>, next |-> 0]

RECURSIVE InflateBlocks(_, _)
\* The stored blocks of z from position pos to the final block: their data,
\* and the position after them.
InflateBlocks(z, pos) ==
    IF pos + 4 > Len(z) THEN InflateFail
    ELSE IF z[pos] \notin {0, 1} THEN InflateFail
    ELSE CHOOSE out \in
             {IF n + z[pos + 3] + 256 * z[pos + 4] # 65535 \/ pos + 4 + n > Len(z)
                  THEN InflateFail
              ELSE IF z[pos] = 1
                  THEN [ok |-> TRUE, data |-> Slice(z, pos + 5, pos + 4 + n),
                        next |-> pos + 5 + n]
              ELSE CHOOSE r \in
                       {[ok |-> rest.ok,
                         data |-> Slice(z, pos + 5, pos + 4 + n) \o rest.data,
                         next |-> rest.next] :
                        rest \in {InflateBlocks(z, pos + 5 + n)}} : TRUE :
              n \in {z[pos + 1] + 256 * z[pos + 2]}} : TRUE

\* zlib.decompress(z): the header is checked, the blocks are read, and the
\* four bytes after them must be the Adler-32 of the data.
Inflate(z) ==
    IF Len(z) < 6 \/ z[1] % 16 # 8 \/ (z[1] * 256 + z[2]) % 31 # 0
                  \/ (z[2] \div 32) % 2 = 1
        THEN InflateFail
    ELSE CHOOSE out \in
             {IF r.ok /\ r.next + 3 = Len(z) /\ SubSeq(z, r.next, r.next + 3) = Adler32(r.data)
                  THEN r ELSE InflateFail :
              r \in {InflateBlocks(z, 3)}} : TRUE

RECURSIVE Concat(_, _)
\* The payloads of chunks chs[k..], concatenated.
Concat(chs, k) == IF k > Len(chs) THEN << >> ELSE chs[k].data \o Concat(chs, k + 1)

DecodeFail == [ok |-> FALSE, width |-> 0, height |-> 0, pixels |-> << >>]

\* The image in raw, a stream of h rows of one filter byte and w pixels.
Unfilter(raw, w, h) ==
    IF Len(raw) # h * (1 + 3 * w) \/ \E y \in 0 .. h - 1 : raw[y * (1 + 3 * w) + 1] # 0
        THEN DecodeFail
    ELSE [ok |-> TRUE, width |-> w, height |-> h,
          pixels |-> [y \in 1 .. h |-> [x \in 1 .. w |->
              SubSeq(raw, (y - 1) * (1 + 3 * w) + 3 * x - 1, (y - 1) * (1 + 3 * w) + 3 * x + 1)]]]

\* The image a reader gets from file bytes f: the signature, then IHDR, the
\* IDAT chunks and IEND, every CRC right, an 8-bit truecolor header without
\* interlacing, and as many inflated bytes as the header announces.
DecodeChunks(chs) ==
    IF Len(chs) < 3 \/ \E k \in 1 .. Len(chs) : ~CrcOk(chs[k]) THEN DecodeFail
    ELSE IF \/ chs[1].tag # TagIHDR
            \/ chs[Len(chs)].tag # TagIEND
            \/ \E k \in 2 .. Len(chs) - 1 : chs[k].tag # TagIDAT
            \/ Len(chs[1].data) # 13
            \/ chs[Len(chs)].data # << >>
        THEN DecodeFail
    ELSE IF \/ chs[1].data[1] >= 128 \/ chs[1].data[5] >= 128
            \/ SubSeq(chs[1].data, 9, 13) # << 8, 2, 0, 0, 0 >>
        THEN DecodeFail
    ELSE IF UnpackU32(chs[1].data, 1) = 0 \/ UnpackU32(chs[1].data, 5) = 0 THEN DecodeFail
    ELSE CHOOSE out \in
             {IF inf.ok
                  THEN Unfilter(inf.data, UnpackU32(chs[1].data, 1), UnpackU32(chs[1].data, 5))
                  ELSE DecodeFail :
              inf \in {Inflate(Concat(SubSeq(chs, 2, Len(chs) - 1), 1))}} : TRUE

Decode(f) ==
    IF ~HasSignature(f) THEN DecodeFail
    ELSE CHOOSE out \in {DecodeChunks(chs) : chs \in {PngChunks(f)}} : TRUE

\* The whole file of a call whose locals are l.
WholeFile(l) == png_signature \o l.ihdr_chunk \o l.idat_chunk \o iend_chunk

\* ================================================================ claims
\* The file the last call wrote to.
Dest == fs[filename].data

\* The call has built its chunks (lines 18-35 are done).
Built == pc \in {"open", "write", "returned"}

\* C1: when a call with a size of at least 1 has returned, decoding the file
\* it wrote (IHDR read, IDAT inflated, filter bytes stripped) gives an image
\* of size x size pixels, every one of them (74, 158, 255).
C1_DecodeRoundTrip ==
    (pc = "returned" /\ size >= 1) =>
        \A d \in {Decode(Dest)} :
            /\ d.ok
            /\ d.width = size /\ d.height = size
            /\ DOMAIN d.pixels = 1 .. size
            /\ \A y \in 1 .. size :
                   /\ DOMAIN d.pixels[y] = 1 .. size
                   /\ \A x \in 1 .. size : d.pixels[y][x] = << 74, 158, 255 >>

C1_Witness ==
    /\ pc = "returned" /\ size >= 2
    /\ Decode(Dest).ok /\ Decode(Dest).pixels[size][size] = << 74, 158, 255 >>

\* C2: when a call has returned, the file is the 8-byte signature followed
\* by exactly three chunks, IHDR, IDAT, IEND in this order, and nothing else.
C2_FileLayout ==
    pc = "returned" =>
        /\ fs[filename].exists
        /\ HasSignature(Dest)
        /\ SubSeq(Dest, 1, 8) = << 137, 80, 78, 71, 13, 10, 26, 10 >>
        /\ \A chs \in {PngChunks(Dest)} :
               /\ Len(chs) = 3
               /\ \A k \in 1 .. 3 : chs[k].wellFormed
               /\ Tags(chs) = << << 73, 72, 68, 82 >>, << 73, 68, 65, 84 >>,
                                 << 73, 69, 78, 68 >> >>

C2_Witness ==
    /\ pc = "returned" /\ before = OldFile /\ size >= 1
    /\ Len(PngChunks(Dest)) = 3

\* C3: the IHDR payload of the file a call wrote is 13 bytes: size in four
\* big-endian bytes, twice, then 8, 2, 0, 0, 0.
C3_IhdrPayload ==
    pc = "returned" =>
        \A d \in {PngChunks(Dest)[1].data} :
            /\ Len(d) = 13
            /\ d[1] * 16777216 + d[2] * 65536 + d[3] * 256 + d[4] = size
            /\ d[5] * 16777216 + d[6] * 65536 + d[7] * 256 + d[8] = size
            /\ d[9] = 8
            /\ d[10] = 2
            /\ d[11] = 0 /\ d[12] = 0 /\ d[13] = 0

C3_Witness ==
    /\ pc = "returned" /\ size >= 2
    /\ PngChunks(Dest)[1].data[4] = size

\* The bytes of a chunk with tag t and payload p: its length field is the
\* byte count of p, its last four bytes are the CRC-32 of t and p.
IsChunkOf(c, t, p) ==
    /\ Len(c) = 12 + Len(p)
    /\ c[1] * 16777216 + c[2] * 65536 + c[3] * 256 + c[4] = Len(p)
    /\ SubSeq(c, 5, 8) = t
    /\ Slice(c, 9, 8 + Len(p)) = p
    /\ SubSeq(c, 9 + Len(p), 12 + Len(p)) = Crc32(t \o p)

\* C4: the IHDR, IDAT and IEND chunks of the file a call wrote carry the
\* length of their own payload and the CRC-32 of their own tag and payload
\* (for IEND the empty payload, whose CRC-32 is AE 42 60 82).
C4_ChunkChecksums ==
    pc = "returned" =>
        \A n \in {Len(loc.idat_data)} :
            /\ Len(Dest) = 8 + 25 + (12 + n) + 12
            /\ IsChunkOf(SubSeq(Dest, 9, 33), TagIHDR, SubSeq(Dest, 17, 29))
            /\ IsChunkOf(SubSeq(Dest, 34, 45 + n), TagIDAT, loc.idat_data)
            /\ IsChunkOf(SubSeq(Dest, 46 + n, 57 + n), TagIEND, << >>)
            /\ SubSeq(Dest, 54 + n, 57 + n) = << 174, 66, 96, 130 >>
            /\ \A k \in 1 .. 3 : CrcOk(PngChunks(Dest)[k])

C4_Witness ==
    /\ pc = "returned" /\ size >= 1
    /\ CrcOk(PngChunks(Dest)[2]) /\ Len(PngChunks(Dest)[2].data) > 11

\* C5: the stream handed to the compressor has size rows of one byte 0 and
\* size pixels of three bytes 74, 158, 255: size * (1 + 3 * size) bytes, a 0
\* at every offset k * (1 + 3 * size); and the IDAT payload inflates to it.
C5_RawStream ==
    Built =>
        \A raw \in {loc.idat_data_raw} :
            /\ Len(raw) = size * (1 + 3 * size)
            /\ \A k \in 0 .. size - 1 :
                   /\ raw[k * (1 + 3 * size) + 1] = 0
                   /\ \A x \in 0 .. size - 1 :
                          /\ raw[k * (1 + 3 * size) + 3 * x + 2] = 74
                          /\ raw[k * (1 + 3 * size) + 3 * x + 3] = 158
                          /\ raw[k * (1 + 3 * size) + 3 * x + 4] = 255
            /\ \A inf \in {Inflate(loc.idat_data)} : inf.ok /\ inf.data = raw

C5_Witness ==
    /\ pc = "open" /\ size >= 2
    /\ Len(loc.idat_data_raw) = size * (1 + 3 * size)

\* C6: a call whose size is zero or negative raises before any I/O: it never
\* returns, and the destination stays as it was.
C6_InvalidSizeRejected ==
    (pc # "idle" /\ size <= 0) => (pc # "returned" /\ fs[filename] = before)

\* C7: when a call has ended, by returning or by raising at any step, the
\* destination holds the whole file or is as it was before the call.
C7_AtomicWrite ==
    pc \in {"returned", "raised"} =>
        \/ fs[filename] = before
        \/ loc # NoLocals /\ fs[filename] = FileOf(WholeFile(loc))

\* C8: any two calls with the same size that returned wrote the same bytes,
\* whatever was called between them and whatever the destination held.
C8_Deterministic ==
    \A i, j \in DOMAIN produced :
        produced[i][1] = produced[j][1] => produced[i][2] = produced[j][2]

C8_Witness ==
    /\ Len(produced) = 3
    /\ produced[1][1] = produced[3][1]
    /\ produced[2][1] # produced[1][1]
    /\ produced[1][2] = produced[3][2]

\* The store icon is missing, is no image, or is not 128 x 128.
NeedsIcon(file) == file.kind # "image" \/ file.w # 128 \/ file.h # 128

\* C9: when check_and_create_icon has returned, it has written the store
\* icon if and only if the icon was missing, no image or not 128 x 128; an
\* icon that was a 128 x 128 image is unchanged; the icon is a 128 x 128 image.
C9_StoreIconWrittenIffNeeded ==
    spc = "returned" =>
        /\ swrote <=> NeedsIcon(sbefore)
        /\ ~NeedsIcon(sbefore) => storeFile = sbefore
        /\ ~NeedsIcon(storeFile)

\* The first n of the driver's three calls.
DriverCalls(n) == [k \in 1 .. n |-> << "icon16.png", "icon48.png", "icon128.png" >>[k]]

\* The file create_minimal_png(name, size) leaves when it returns.
IconDone(k) ==
    /\ fs[IconNames[k]].exists
    /\ \A d \in {Decode(fs[IconNames[k]].data)} :
           d.ok /\ d.width = IconSizes[k] /\ d.height = IconSizes[k]

\* C10: the driver calls for icon16, icon48, icon128 in this order; each
\* call is made only after the earlier ones returned, whose files stay in
\* place; once a call has raised no further call is made and the script
\* does not die of it; the success message comes only with all three files.
C10_DriverState ==
    prog = "main" =>
        /\ Len(attempts) <= 3
        /\ attempts = DriverCalls(Len(attempts))
        /\ \A k \in 1 .. Len(attempts) - 1 : IconDone(k)
        /\ Len(attempts) >= 1 =>
               /\ filename = attempts[Len(attempts)]
               /\ size = IconSizes[Len(attempts)]
        /\ mpc = "crashed" => attempts = << >>
        /\ mpc = "error" => pc = "raised"
        /\ mpc = "success" => Len(attempts) = 3 /\ \A k \in 1 .. 3 : IconDone(k)

C10_DriverOrder ==
    /\ []C10_DriverState
    /\ [][(prog = "main" /\ pc = "raised") =>
              (attempts' = attempts /\ pc' = "raised" /\ fs' = fs
               /\ mpc' \in {"try", "error"})]_vars

C10_Witness ==
    /\ prog = "main" /\ mpc = "error"
    /\ Len(attempts) = 2
    /\ IconDone(1)
    /\ before = OldFile /\ fs["icon48.png"] # before /\ ~IconDone(2)
====
